---- MODULE Spec2Model ----
(***************************************************************************)
(* srcds_exporter (src/main.py): a Prometheus exporter that queries a      *)
(* Source dedicated server over RCON once per HTTP scrape.                 *)
(*                                                                         *)
(* Texts (requests' query values, RCON responses, metric names) are        *)
(* sequences of one-character strings, so that split, strip, float         *)
(* parsing and the players pattern are computed and not assumed.           *)
(***************************************************************************)
EXTENDS Integers, Sequences, FiniteSets, TLC

(* ------------------------------ bounds --------------------------------- *)

\* Number of HTTP requests (scrapes) the exporter serves in one behaviour.
NumScrapes == 1

(* ------------------------- values and text ----------------------------- *)

\* Python values that end up in server_dict or in a target triple.
NoneV == [t |-> "none", s |-> <<>>, n |-> 0, d |-> 0]
StrV(c) == [t |-> "str", s |-> c, n |-> 0, d |-> 0]
IntV(i) == [t |-> "int", s |-> <<>>, n |-> i, d |-> 0]
\* A float with the decimal value n / 10^d, d minimal.
FloatV(i, e) == [t |-> "float", s |-> <<>>, n |-> i, d |-> e]

Digits == {"0", "1", "2", "3", "4", "5", "6", "7", "8", "9"}
DigitVal(c) ==
    CASE c = "0" -> 0 [] c = "1" -> 1 [] c = "2" -> 2 [] c = "3" -> 3
      [] c = "4" -> 4 [] c = "5" -> 5 [] c = "6" -> 6 [] c = "7" -> 7
      [] c = "8" -> 8 [] c = "9" -> 9

\* str.isspace() on the characters the model's texts use.
IsSpace(c) == c \in {" ", "\t", "\n", "\r"}

\* s[i:] (1-based, i may be Len(s)+1)
From(s, i) == SubSeq(s, i, Len(s))

\* s.startswith(lit, i-1)
HasPrefixAt(s, i, lit) ==
    /\ i + Len(lit) - 1 <= Len(s)
    /\ SubSeq(s, i, i + Len(lit) - 1) = lit

\* Index of the first occurrence of character c in s at or after i, 0 when none.
RECURSIVE IndexOf(_, _, _)
IndexOf(s, c, i) ==
    IF i > Len(s) THEN 0
    ELSE IF s[i] = c THEN i
    ELSE IndexOf(s, c, i + 1)

\* str.splitlines(): split at "\n"; no trailing empty line.  One step per
\* line: the line from i up to the next "\n" or the end of s.
RECURSIVE SplitLinesFrom(_, _, _)
SplitLinesFrom(s, i, acc) ==
    IF i > Len(s) THEN acc
    ELSE LET k == IndexOf(s, "\n", i)
         IN  IF k = 0 THEN Append(acc, From(s, i))
             ELSE SplitLinesFrom(s, k + 1, Append(acc, SubSeq(s, i, k - 1)))

splitlines(s) == SplitLinesFrom(s, 1, <<>>)

\* str.split(): split at runs of whitespace, no empty tokens.
RECURSIVE SplitWsFrom(_, _, _, _)
SplitWsFrom(s, i, cur, acc) ==
    IF i > Len(s) THEN (IF cur = <<>> THEN acc ELSE Append(acc, cur))
    ELSE IF IsSpace(s[i])
         THEN SplitWsFrom(s, i + 1, <<>>, IF cur = <<>> THEN acc ELSE Append(acc, cur))
    ELSE SplitWsFrom(s, i + 1, Append(cur, s[i]), acc)

split(s) == SplitWsFrom(s, 1, <<>>, <<>>)

\* str.split(sep): split at every occurrence of the character sep.
RECURSIVE SplitSepFrom(_, _, _, _, _)
SplitSepFrom(s, sep, i, cur, acc) ==
    IF i > Len(s) THEN Append(acc, cur)
    ELSE IF s[i] = sep THEN SplitSepFrom(s, sep, i + 1, <<>>, Append(acc, cur))
    ELSE SplitSepFrom(s, sep, i + 1, Append(cur, s[i]), acc)

split_sep(s, sep) == SplitSepFrom(s, sep, 1, <<>>, <<>>)

\* str.split(sep, 1): split at the first occurrence of sep only.
split_sep_1(s, sep) ==
    LET k == IndexOf(s, sep, 1)
    IN  IF k = 0 THEN <<s>>
        ELSE <<SubSeq(s, 1, k - 1), From(s, k + 1)>>

\* str.strip()
RECURSIVE LStrip(_)
LStrip(s) ==
    IF s # <<>> /\ IsSpace(s[1]) THEN LStrip(Tail(s)) ELSE s

RECURSIVE RStrip(_)
RStrip(s) ==
    IF s # <<>> /\ IsSpace(s[Len(s)]) THEN RStrip(SubSeq(s, 1, Len(s) - 1)) ELSE s

strip(s) == RStrip(LStrip(s))

\* Index after the longest run of digits (\d+ / \d*) starting at i.
RECURSIVE SkipDigits(_, _)
SkipDigits(s, i) ==
    IF i <= Len(s) /\ s[i] \in Digits THEN SkipDigits(s, i + 1) ELSE i

\* Index after the longest run of whitespace (\s+ / \s*) starting at i.
RECURSIVE SkipSpaces(_, _)
SkipSpaces(s, i) ==
    IF i <= Len(s) /\ IsSpace(s[i]) THEN SkipSpaces(s, i + 1) ELSE i

\* The number a sequence of digits denotes.
RECURSIVE DigitsToNat(_)
DigitsToNat(ds) ==
    IF ds = <<>> THEN 0
    ELSE 10 * DigitsToNat(SubSeq(ds, 1, Len(ds) - 1)) + DigitVal(ds[Len(ds)])

\* Drop the trailing zeros of a fraction's digits.
RECURSIVE DropTrailingZeros(_)
DropTrailingZeros(ds) ==
    IF ds # <<>> /\ ds[Len(ds)] = "0"
    THEN DropTrailingZeros(SubSeq(ds, 1, Len(ds) - 1))
    ELSE ds

\* float(v) for the decimal literals [+-]digits[.digits] | [+-].digits (after
\* strip); ok = FALSE is Python's ValueError.  The model's texts hold no
\* exponent, inf, nan or underscore forms.
float(v) ==
    LET t == strip(v)
        signed == t # <<>> /\ t[1] \in {"+", "-"}
        body == IF signed THEN Tail(t) ELSE t
        a == SkipDigits(body, 1)
        intpart == SubSeq(body, 1, a - 1)
        dotted == a <= Len(body) /\ body[a] = "."
        b == IF dotted THEN SkipDigits(body, a + 1) ELSE a
        frac == IF dotted THEN SubSeq(body, a + 1, b - 1) ELSE <<>>
        wellformed == /\ b = Len(body) + 1
                      /\ Len(intpart) + Len(frac) > 0
        fr == DropTrailingZeros(frac)
        mag == DigitsToNat(intpart \o fr)
    IN  IF ~wellformed THEN [ok |-> FALSE, val |-> NoneV]
        ELSE [ok |-> TRUE,
              val |-> FloatV(IF signed /\ t[1] = "-" THEN 0 - mag ELSE mag, Len(fr))]

(* ---------------------------- dictionaries ----------------------------- *)

\* A Python dict: a sequence of <<key, value>> pairs in insertion order,
\* keys unique.
RECURSIVE KeyIndex(_, _, _)
KeyIndex(d, k, i) ==
    IF i > Len(d) THEN 0
    ELSE IF d[i][1] = k THEN i
    ELSE KeyIndex(d, k, i + 1)

HasKey(d, k) == KeyIndex(d, k, 1) # 0

\* d[k] = v
DictSet(d, k, v) ==
    LET i == KeyIndex(d, k, 1)
    IN  IF i = 0 THEN Append(d, <<k, v>>)
        ELSE [d EXCEPT ![i] = <<k, v>>]

\* d[k] (k must be a key)
DictGet(d, k) == d[KeyIndex(d, k, 1)][2]

DictKeys(d) == {d[i][1] : i \in 1..Len(d)}

(* ------------------------------ literals ------------------------------- *)

\* Keys of server_dict and the literals of the players pattern.
K_ip == <<"i", "p">>
K_port == <<"p", "o", "r", "t">>
K_target == <<"t", "a", "r", "g", "e", "t">>
K_hostname == <<"h", "o", "s", "t", "n", "a", "m", "e">>
K_players == <<"p", "l", "a", "y", "e", "r", "s">>
K_bots == <<"b", "o", "t", "s">>
K_max_players == <<"m", "a", "x", "_", "p", "l", "a", "y", "e", "r", "s">>
K_srcds_up == <<"s", "r", "c", "d", "s", "_", "u", "p">>
L_humansNoComma == <<"h", "u", "m", "a", "n", "s">>
L_humans == <<"h", "u", "m", "a", "n", "s", ",">>
L_bots == <<"b", "o", "t", "s">>
L_max == <<" ", "m", "a", "x", ")">>

\* STATS_MAPPING: the rename table of the stats columns.
STATS_MAPPING ==
    <<
       <<<<"I", "n">>,
         <<"N", "e", "t", "I", "n">>>>,
       <<<<"I", "n", "_", "(", "K", "B", "/", "s", ")">>,
         <<"N", "e", "t", "I", "n">>>>,
       <<<<"O", "u", "t">>,
         <<"N", "e", "t", "O", "u", "t">>>>,
       <<<<"O", "u", "t", "_", "(", "K", "B", "/", "s", ")">>,
         <<"N", "e", "t", "O", "u", "t">>>>,
       <<<<"+", "-", "m", "s">>,
         <<"v", "a", "r", "m", "s">>>>,
       <<<<"~", "t", "i", "c", "k">>,
         <<"v", "a", "r", "t", "i", "c", "k">>>>,
       <<<<"S", "v", "m", "s">>,
         <<"s", "v", "a", "r", "m", "s">>>>,
       <<<<"M", "a", "p", "_", "c", "h", "a", "n", "g", "e", "s">>,
         <<"M", "a", "p", "s">>>>
    >>

(* ------------------------------ parsers -------------------------------- *)

\* The names line after the rename loop, had the loop stopped at the first
\* name it replaced.
RenameStatsFirstOnly(names) ==
    [i \in 1..Len(names) |->
        IF /\ HasKey(STATS_MAPPING, names[i])
           /\ \A j \in 1..(i - 1) : ~HasKey(STATS_MAPPING, names[j])
        THEN DictGet(STATS_MAPPING, names[i])
        ELSE names[i]]

\* The names line after the rename loop: a name that is a key of
\* STATS_MAPPING is replaced by its entry, any other name is kept.
RenameStats(names) ==
    [i \in 1..Len(names) |->
        IF HasKey(STATS_MAPPING, names[i])
        THEN DictGet(STATS_MAPPING, names[i])
        ELSE names[i]]

\* for key, value in zip(names, values): server_dict[key] = value
RECURSIVE ZipSet(_, _, _, _)
ZipSet(d, names, values, i) ==
    IF i > Len(names) \/ i > Len(values) THEN d
    ELSE ZipSet(DictSet(d, names[i], values[i]), names, values, i + 1)

\* _parse_stats: exc is the exception the call raises ("none" when it
\* returns), dict the server_dict it leaves behind.
_parse_stats(stats, server_dict) ==
    LET raw == splitlines(stats)
        lines == [i \in 1..Len(raw) |-> split(raw[i])]
    IN  IF Len(lines) < 2 THEN [exc |-> "IndexError", dict |-> server_dict]
        ELSE
          LET names == RenameStats(lines[1])
              parsed == [i \in 1..Len(lines[2]) |-> float(lines[2][i])]
          IN  IF \E i \in 1..Len(parsed) : ~parsed[i].ok
              THEN [exc |-> "ValueError", dict |-> server_dict]
              ELSE [exc |-> "none",
                    dict |-> ZipSet(server_dict, names,
                                    [i \in 1..Len(parsed) |-> parsed[i].val], 1)]

\* re.match of the players pattern
\*   (?P<players>\d+)\s+(humans,\s+)?((?P<bots>\d+)\s+bots\s+)?
\*   \((?P<max_players>\d+)(/\d)? max\)
\* against value, anchored at its start only.  No alternative of the pattern
\* can succeed where the greedy one fails (digits, whitespace and the
\* literals start with different characters), so the greedy match is the
\* match.  bots is NoneV when its group did not take part.
players_match(value) ==
    LET p1 == SkipDigits(value, 1)
        p2 == SkipSpaces(value, p1)
        h1 == p2 + Len(L_humans)
        h2 == SkipSpaces(value, h1)
        humans == HasPrefixAt(value, p2, L_humans) /\ h2 > h1
        p3 == IF humans THEN h2 ELSE p2
        b1 == SkipDigits(value, p3)
        b2 == SkipSpaces(value, b1)
        b3 == b2 + Len(L_bots)
        b4 == SkipSpaces(value, b3)
        bots == /\ b1 > p3
                /\ b2 > b1
                /\ HasPrefixAt(value, b2, L_bots)
                /\ b4 > b3
        p4 == IF bots THEN b4 ELSE p3
        m1 == SkipDigits(value, p4 + 1)
        slash == /\ m1 + 1 <= Len(value)
                 /\ value[m1] = "/"
                 /\ value[m1 + 1] \in Digits
        p5 == IF slash THEN m1 + 2 ELSE m1
        matched == /\ p1 > 1
                   /\ p2 > p1
                   /\ p4 <= Len(value)
                   /\ value[p4] = "("
                   /\ m1 > p4 + 1
                   /\ HasPrefixAt(value, p5, L_max)
    IN  IF ~matched
        THEN [matched |-> FALSE, players |-> NoneV, bots |-> NoneV,
              max_players |-> NoneV]
        ELSE [matched |-> TRUE,
              players |-> StrV(SubSeq(value, 1, p1 - 1)),
              bots |-> IF bots THEN StrV(SubSeq(value, p3, b1 - 1)) ELSE NoneV,
              max_players |-> StrV(SubSeq(value, p4 + 1, m1 - 1))]

\* The body of _parse_status's loop, had it written the three keys without
\* testing the match: None for each when the value matches no layout.
StatusLineNoneOnMismatch(key, value, d) ==
    IF key = K_players
    THEN LET m == players_match(value)
         IN  DictSet(DictSet(DictSet(d, K_players, m.players),
                             K_bots, m.bots),
                     K_max_players, m.max_players)
    ELSE IF key = K_hostname
    THEN DictSet(d, K_hostname, StrV(value))
    ELSE d

\* The body of _parse_status's loop, had it skipped the groups that did not
\* take part in the match.
StatusLineSkipNone(key, value, d) ==
    IF key = K_players
    THEN LET m == players_match(value)
             d1 == DictSet(d, K_players, m.players)
             d2 == IF m.bots = NoneV THEN d1 ELSE DictSet(d1, K_bots, m.bots)
         IN  IF m.matched THEN DictSet(d2, K_max_players, m.max_players) ELSE d
    ELSE IF key = K_hostname
    THEN DictSet(d, K_hostname, StrV(value))
    ELSE d

\* The body of _parse_status's loop for the header line key: value.
StatusLine(key, value, d) ==
    IF key = K_players
    THEN LET m == players_match(value)
         IN  IF m.matched
             THEN DictSet(DictSet(DictSet(d, K_players, m.players),
                                  K_bots, m.bots),
                          K_max_players, m.max_players)
             ELSE d
    ELSE IF key = K_hostname
    THEN DictSet(d, K_hostname, StrV(value))
    ELSE d

\* _parse_status's loop from line i on, had the handler of ValueError gone
\* on to the next line instead of leaving the loop.
RECURSIVE StatusLoopContinue(_, _, _)
StatusLoopContinue(lines, i, d) ==
    IF i > Len(lines) THEN d
    ELSE IF strip(lines[i]) = <<>> THEN d
    ELSE LET parts == split_sep_1(lines[i], ":")
         IN  IF Len(parts) # 2 THEN StatusLoopContinue(lines, i + 1, d)
             ELSE StatusLoopContinue(lines, i + 1,
                                     StatusLine(strip(parts[1]), strip(parts[2]), d))

\* _parse_status's loop from line i on.
RECURSIVE StatusLoop(_, _, _)
StatusLoop(lines, i, d) ==
    IF i > Len(lines) THEN d
    ELSE IF strip(lines[i]) = <<>> THEN d
    ELSE LET parts == split_sep_1(lines[i], ":")
         IN  IF Len(parts) # 2 THEN d
             ELSE StatusLoop(lines, i + 1,
                             StatusLine(strip(parts[1]), strip(parts[2]), d))

\* _parse_status: the server_dict it leaves behind (it raises on no text).
_parse_status(status, server_dict) == StatusLoop(splitlines(status), 1, server_dict)

\* _parse_query, had it parsed the stats output only.
_parse_queryStatsOnly(stats, status, server_dict) == _parse_stats(stats, server_dict)

\* _parse_query: status first, then stats.
_parse_query(stats, status, server_dict) ==
    _parse_stats(stats, _parse_status(status, server_dict))


(* --------------------------- configuration ----------------------------- *)

\* A reconnection budget one larger than the one the code passes.
MoreReconnectAttempts == 2 + 1

\* auto_reconnect_attempts passed to RCON.create.
AutoReconnectAttempts == 2

\* str(v) as the % operator formats it: a str as it is, an int in decimal.
RECURSIVE NatToDigits(_)
NatToDigits(i) ==
    LET last == <<CHOOSE c \in Digits : DigitVal(c) = i % 10>>
    IN  IF i < 10 THEN last ELSE NatToDigits(i \div 10) \o last

Format(v) == IF v.t = "int" THEN NatToDigits(v.n) ELSE v.s

\* SRCDSExporter.__init__ as start_webserver calls it: with the static
\* target in single server mode, with None, None, None otherwise.
SingleServerConfig ==
    [single_server |-> TRUE, ip |-> StrV(<<"g">>), port |-> IntV(27015),
     password |-> StrV(<<"s">>)]

MultiTargetConfig ==
    [single_server |-> FALSE, ip |-> NoneV, port |-> NoneV, password |-> NoneV]

(* ------------------------------ requests ------------------------------- *)

K_password == <<"p", "a", "s", "s", "w", "o", "r", "d">>

\* Values of the target query parameter: no separator, address:port, a
\* port that is no number.
TargetValues ==
    { <<"h">>, <<"h", ":", "1">>, <<"h", ":", "x">> }

PasswordValues == { <<"p">> }

\* request.query: the parameters a request may carry.
Queries ==
    {<<>>}
    \cup { <<<<K_target, t>>>> : t \in TargetValues }
    \cup { <<<<K_password, p>>>> : p \in PasswordValues }
    \cup { <<<<K_target, t>>, <<K_password, p>>>> :
              t \in TargetValues, p \in PasswordValues }

Requests == [path : {"/metrics", "/other"}, query : Queries]

(* --------------------------- target resolver --------------------------- *)

NoTarget == <<NoneV, NoneV, NoneV>>

\* _get_target in single server mode, had its loop looked for "target" only.
GetTargetSingleTargetOnly(cfg, query) ==
    IF HasKey(query, K_target)
    THEN [exc |-> "TargetSpecificationError", target |-> NoTarget]
    ELSE [exc |-> "none", target |-> <<cfg.ip, cfg.port, cfg.password>>]

\* _get_target in single server mode.
GetTargetSingle(cfg, query) ==
    IF HasKey(query, K_target) \/ HasKey(query, K_password)
    THEN [exc |-> "TargetSpecificationError", target |-> NoTarget]
    ELSE [exc |-> "none", target |-> <<cfg.ip, cfg.port, cfg.password>>]

\* _get_target otherwise.  With no target parameter the KeyError handler
\* formats its message with the local `target`, which is not bound yet: the
\* handler itself raises UnboundLocalError.
GetTargetMulti(query) ==
    IF ~HasKey(query, K_target)
    THEN [exc |-> "UnboundLocalError", target |-> NoTarget]
    ELSE LET targets == split_sep(DictGet(query, K_target), ":")
         IN  IF Len(targets) < 2
             THEN [exc |-> "TargetSpecificationError", target |-> NoTarget]
             ELSE IF ~HasKey(query, K_password)
             THEN [exc |-> "TargetSpecificationError", target |-> NoTarget]
             ELSE [exc |-> "none",
                   target |-> <<StrV(targets[1]), StrV(targets[2]),
                                StrV(DictGet(query, K_password))>>]

_get_target(cfg, query) ==
    IF cfg.single_server THEN GetTargetSingle(cfg, query)
    ELSE GetTargetMulti(query)

(* ------------------------------ responses ------------------------------ *)

NoResponse == [status |-> 0, kind |-> "none", exc |-> "none", metrics |-> <<>>]

InvalidPathResponse ==
    [status |-> 404, kind |-> "invalid_path", exc |-> "none", metrics |-> <<>>]

TargetInvalidResponse ==
    [status |-> 404, kind |-> "target_invalid",
     exc |-> "TargetSpecificationError", metrics |-> <<>>]

RefusedResponse ==
    [status |-> 503, kind |-> "refused", exc |-> "ConnectionRefusedError",
     metrics |-> <<>>]

\* A down response that also carries a hostname metric.
DownResponseWithHostname(e) ==
    [status |-> 200, kind |-> "down", exc |-> e,
     metrics |-> <<<<K_srcds_up, IntV(0)>>, <<K_hostname, StrV(<<>>)>>>>]

\* _server_down_response: the srcds_up gauge at 0 and nothing else.
_server_down_response(e) ==
    [status |-> 200, kind |-> "down", exc |-> e,
     metrics |-> <<<<K_srcds_up, IntV(0)>>>>]

\* template.render(**server_dict) in a 200 response.
MetricsResponse(server_dict) ==
    [status |-> 200, kind |-> "metrics", exc |-> "none", metrics |-> server_dict]

\* An exception that leaves request_handler: the web server answers 500.
UnhandledResponse(e) ==
    [status |-> 500, kind |-> "unhandled", exc |-> e, metrics |-> <<>>]

\* The except clause, had it no branch for ConnectionRefusedError.
HandleQueryExceptionNoRefused(e) == _server_down_response(e)

\* The except clause around the _rcon_query call.  A timeout that is no
\* builtin TimeoutError (asyncio's own class on older interpreters) takes the
\* last branch, which answers the same.
HandleQueryException(e) ==
    IF e = "TimeoutError" THEN _server_down_response(e)
    ELSE IF e = "ConnectionRefusedError" THEN RefusedResponse
    ELSE _server_down_response(e)

\* server_dict before parsing: ip, port and target.
InitialServerDict(tgt) ==
    << <<K_ip, tgt[1]>>,
       <<K_port, tgt[2]>>,
       <<K_target,
         StrV(<<"{">> \o Format(tgt[1]) \o <<"}", ":", "{">> \o Format(tgt[2])
              \o <<"}">>)>> >>

\* request_handler once _rcon_query returned status and stats.
HandleQueryResult(tgt, statusText, statsText) ==
    LET parsed == _parse_query(statsText, statusText, InitialServerDict(tgt))
    IN  IF parsed.exc # "none" THEN UnhandledResponse(parsed.exc)
        ELSE MetricsResponse(parsed.dict)

(* --------------------------- server outputs ---------------------------- *)

\* The status output of the documented example.
StatusFull ==
    <<"h", "o", "s", "t", "n", "a", "m", "e", ":", " ", "M", "y", " ", "S",
      "e", "r", "v", "e", "r", "\n", "p", "l", "a", "y", "e", "r", "s",
      ":", " ", "5", " ", "h", "u", "m", "a", "n", "s", ",", " ", "2", " ",
      "b", "o", "t", "s", " ", "(", "1", "0", " ", "m", "a", "x", ")", "\n">>

\* A status output with no bots segment and a line after the blank line.
StatusShort ==
    <<"p", "l", "a", "y", "e", "r", "s", ":", " ", "1", "2", " ", "(", "1",
      "6", " ", "m", "a", "x", ")", "\n", "\n", "h", "o", "s", "t", "n",
      "a", "m", "e", ":", " ", "x">>

\* The stats output of the documented example.
StatsFull ==
    <<"I", "n", " ", "O", "u", "t", " ", "+", "-", "m", "s", "\n", "1",
      ".", "5", " ", "2", ".", "5", " ", "3", "0", ".", "0", "\n">>

\* A stats output with a value that is no number.
StatsBadValue ==
    <<"C", "P", "U", " ", "I", "n", "\n", "1", "0", ".", "0", " ", "a",
      "b", "c", "\n">>

\* A stats output with no values line.
StatsNoValues ==
    <<"C", "P", "U", " ", "I", "n", "\n">>

\* An empty stats output.
StatsEmpty == <<>>

StatusTexts == {StatusFull, StatusShort}

StatsTexts == {StatsFull, StatsBadValue, StatsNoValues, StatsEmpty}

(* ----------------------------- RCON client ----------------------------- *)

\* The state of one scrape's RCON client: the phase of the session, the
\* number of connect+authenticate attempts begun, the number of TCP
\* connections it holds open, and the number of close() calls that
\* released a connection.
ClientIdle == [phase |-> "none", attempts |-> 0, open |-> 0, closes |-> 0]

\* A connect+authenticate attempt begins with the TCP connect.
ClientStart(c) == [c EXCEPT !.phase = "connecting", !.attempts = @ + 1]

\* The TCP connection is established; the AUTH packet is sent.
ClientConnected(c) == [c EXCEPT !.phase = "authenticating", !.open = @ + 1]

\* The AUTH_RESPONSE carries the id of the AUTH packet.
ClientAuthenticated(c) == [c EXCEPT !.phase = "authenticated"]

\* The attempt's connection is gone: refused, lost, or released by the
\* client when it stops waiting.
ClientDrop(c) == [c EXCEPT !.open = 0]

\* The reconnection policy: retries left after the initial attempt.
ClientCanRetry(c) == c.attempts < 1 + AutoReconnectAttempts

\* close(): releases the connection; idempotent.
ClientClose(c) ==
    [c EXCEPT !.phase = "closed", !.open = 0,
              !.closes = IF c.phase = "closed" THEN @ ELSE @ + 1]

\* How an attempt fails while it connects and while it authenticates.
AttemptFailures(phase) ==
    IF phase = "connecting" THEN {"ConnectionRefusedError", "TimeoutError"}
    ELSE {"ConnectionError", "TimeoutError"}

\* How execute fails: wait_for's bound fires, or the client raises.
CommandFailures == {"TimeoutError", "ProtocolError"}

\* The first command, had the two been written in the other order.
FirstCommandSwapped == "stats"

\* The two commands _rcon_query sends, in its order.
FirstCommand == "status"

SecondCommand == "stats"

(* -------------------------------- state -------------------------------- *)

Scrapes == 1..NumScrapes

Ev(e) == [ev |-> e, arg |-> ""]
Exec(cmd) == [ev |-> "exec", arg |-> cmd]

NoRequest == [path |-> "", query |-> <<>>]

VARIABLES
    config,     \* the exporter's _single_server, _ip, _port, _password
    pc,         \* where each scrape's request_handler is suspended
    request,    \* the request each scrape serves
    target,     \* request_handler's ip, port, password
    rcon,       \* _rcon_query's local rcon: "None" or "session"
    status,     \* _rcon_query's local status
    stats,      \* _rcon_query's local stats
    client,     \* the RCON client each scrape's RCON.create made
    response,   \* what the handler answered
    log,        \* what each scrape did, in order
    parse,      \* one call of a parser on its own: its text, server_dict, result
    exec        \* one command on an authenticated session: its packets and result

vars ==
    <<config, pc, request, target, rcon, status, stats, client, response, log,
      parse, exec>>

\* No parser call in progress.
NoParse ==
    [pc |-> "none", parts |-> <<>>, text |-> <<>>, before |-> <<>>, after |-> <<>>,
     exc |-> "none"]

\* No command in progress.
NoExec ==
    [pc |-> "none", frags |-> <<>>, answer |-> <<>>, sent |-> <<>>, pending |-> <<>>,
     inbox |-> <<>>, acc |-> <<>>, result |-> NoneV]

Init ==
    /\ config \in {SingleServerConfig, MultiTargetConfig}
    /\ pc = [s \in Scrapes |-> "idle"]
    /\ request = [s \in Scrapes |-> NoRequest]
    /\ target = [s \in Scrapes |-> NoTarget]
    /\ rcon = [s \in Scrapes |-> "None"]
    /\ status = [s \in Scrapes |-> NoneV]
    /\ stats = [s \in Scrapes |-> NoneV]
    /\ client = [s \in Scrapes |-> ClientIdle]
    /\ response = [s \in Scrapes |-> NoResponse]
    /\ log = [s \in Scrapes |-> <<>>]
    /\ parse = NoParse
    /\ exec = NoExec

(* ------------------------------- actions ------------------------------- *)

\* request_handler up to its first await, had the except clause for
\* TargetSpecificationError only logged and not returned.
HandlerStartNoReturn(cfg, req) ==
    IF req.path # "/metrics"
    THEN [pc |-> "done", target |-> NoTarget, client |-> ClientIdle,
          response |-> InvalidPathResponse, log |-> <<Ev("invalid_path")>>]
    ELSE LET t == _get_target(cfg, req.query)
         IN  IF t.exc \notin {"none", "TargetSpecificationError"}
             THEN [pc |-> "done", target |-> NoTarget, client |-> ClientIdle,
                   response |-> UnhandledResponse(t.exc), log |-> <<Ev("escape")>>]
             ELSE [pc |-> "create", target |-> t.target,
                   client |-> ClientStart(ClientIdle),
                   response |-> NoResponse,
                   log |-> IF t.exc = "none"
                           THEN <<Ev("resolved"), Ev("connect")>>
                           ELSE <<Ev("reject"), Ev("connect")>>]

\* request_handler up to its first await: the path check, _get_target, and
\* _rcon_query up to the RCON.create it awaits.
HandlerStart(cfg, req) ==
    IF req.path # "/metrics"
    THEN [pc |-> "done", target |-> NoTarget, client |-> ClientIdle,
          response |-> InvalidPathResponse, log |-> <<Ev("invalid_path")>>]
    ELSE LET t == _get_target(cfg, req.query)
         IN  IF t.exc = "TargetSpecificationError"
             THEN [pc |-> "done", target |-> NoTarget, client |-> ClientIdle,
                   response |-> TargetInvalidResponse, log |-> <<Ev("reject")>>]
             ELSE IF t.exc # "none"
             THEN [pc |-> "done", target |-> NoTarget, client |-> ClientIdle,
                   response |-> UnhandledResponse(t.exc), log |-> <<Ev("escape")>>]
             ELSE [pc |-> "create", target |-> t.target,
                   client |-> ClientStart(ClientIdle),
                   response |-> NoResponse,
                   log |-> <<Ev("resolved"), Ev("connect")>>]

Receive(s, req) ==
    /\ pc[s] = "idle"
    /\ LET h == HandlerStart(config, req)
       IN  /\ pc' = [pc EXCEPT ![s] = h.pc]
           /\ target' = [target EXCEPT ![s] = h.target]
           /\ client' = [client EXCEPT ![s] = h.client]
           /\ response' = [response EXCEPT ![s] = h.response]
           /\ log' = [log EXCEPT ![s] = h.log]
    /\ request' = [request EXCEPT ![s] = req]
    /\ UNCHANGED <<config, rcon, status, stats>>
    /\ UNCHANGED <<parse, exec>>

\* _rcon_query's exit, had close() followed the awaits with no try/finally:
\* it runs on the return only.
QueryExitNoFinally(r, c, how, e) ==
    IF r # "None" /\ how = "return"
    THEN [client |-> ClientClose(c),
          log |-> <<Ev("close"), [ev |-> how, arg |-> e]>>]
    ELSE [client |-> c, log |-> <<[ev |-> how, arg |-> e]>>]

\* _rcon_query's finally clause and what follows it: close() when rcon is
\* set, then the return (how = "return", e = "") or the exception e going
\* on (how = "raise").
QueryExit(r, c, how, e) ==
    IF r # "None"
    THEN [client |-> ClientClose(c),
          log |-> <<Ev("close"), [ev |-> how, arg |-> e]>>]
    ELSE [client |-> c, log |-> <<[ev |-> how, arg |-> e]>>]

\* An exception e leaves the awaited call: the finally clause runs, the
\* exception reaches request_handler's except clause, the handler answers.
Raise(s, c, e, events) ==
    LET x == QueryExit(rcon[s], c, "raise", e)
    IN  /\ client' = [client EXCEPT ![s] = x.client]
        /\ log' = [log EXCEPT ![s] = @ \o events \o x.log]
        /\ response' = [response EXCEPT ![s] = HandleQueryException(e)]
        /\ pc' = [pc EXCEPT ![s] = "done"]

\* RCON.create: the TCP connection is established.
ConnectEstablished(s) ==
    /\ pc[s] = "create"
    /\ client[s].phase = "connecting"
    /\ client' = [client EXCEPT ![s] = ClientConnected(@)]
    /\ log' = [log EXCEPT ![s] = Append(@, Ev("auth"))]
    /\ UNCHANGED <<config, pc, request, target, rcon, status, stats, response>>
    /\ UNCHANGED <<parse, exec>>

\* RCON.create: the attempt fails with e; the client tries again while the
\* reconnection policy allows, and raises e once it does not.
AttemptFailed(s, e) ==
    /\ pc[s] = "create"
    /\ e \in AttemptFailures(client[s].phase)
    /\ LET c == ClientDrop(client[s])
       IN  IF ClientCanRetry(c)
           THEN /\ client' = [client EXCEPT ![s] = ClientStart(c)]
                /\ log' = [log EXCEPT ![s] = Append(@, Ev("connect"))]
                /\ UNCHANGED <<pc, response>>
           ELSE Raise(s, c, e, <<>>)
    /\ UNCHANGED <<config, request, target, rcon, status, stats>>
    /\ UNCHANGED <<parse, exec>>

\* RCON.create: the server rejects the password (AUTH_RESPONSE with id -1);
\* authenticate fails and nothing has released the connection.
AuthRejected(s) ==
    /\ pc[s] = "create"
    /\ client[s].phase = "authenticating"
    /\ Raise(s, client[s], "AuthenticationFailed", <<>>)
    /\ UNCHANGED <<config, request, target, rcon, status, stats>>
    /\ UNCHANGED <<parse, exec>>

\* wait_for(RCON.create(...), 2) fires: create is cancelled, and the client
\* stops waiting and releases its connection.
CreateTimeout(s) ==
    /\ pc[s] = "create"
    /\ Raise(s, ClientDrop(client[s]), "TimeoutError", <<Ev("timeout")>>)
    /\ UNCHANGED <<config, request, target, rcon, status, stats>>
    /\ UNCHANGED <<parse, exec>>

\* RCON.create returns the authenticated session; rcon("status") is sent.
\* (create returns a session or raises: the `rcon is None` branch is dead.)
AuthSucceeded(s) ==
    /\ pc[s] = "create"
    /\ client[s].phase = "authenticating"
    /\ client' = [client EXCEPT ![s] = ClientAuthenticated(@)]
    /\ rcon' = [rcon EXCEPT ![s] = "session"]
    /\ log' = [log EXCEPT ![s] = @ \o <<Ev("session"), Exec(FirstCommand)>>]
    /\ pc' = [pc EXCEPT ![s] = "status"]
    /\ UNCHANGED <<config, request, target, status, stats, response>>
    /\ UNCHANGED <<parse, exec>>

\* rcon("status") returns text; rcon("stats") is sent.
StatusReturned(s, text) ==
    /\ pc[s] = "status"
    /\ status' = [status EXCEPT ![s] = StrV(text)]
    /\ log' = [log EXCEPT ![s] = Append(@, Exec(SecondCommand))]
    /\ pc' = [pc EXCEPT ![s] = "stats"]
    /\ UNCHANGED <<config, request, target, rcon, stats, client, response>>
    /\ UNCHANGED <<parse, exec>>

\* rcon("status") times out or fails.
StatusFailed(s, e) ==
    /\ pc[s] = "status"
    /\ Raise(s, client[s], e, IF e = "TimeoutError" THEN <<Ev("timeout")>> ELSE <<>>)
    /\ UNCHANGED <<config, request, target, rcon, status, stats>>
    /\ UNCHANGED <<parse, exec>>

\* rcon("stats") returns text: the finally clause runs, _rcon_query
\* returns, and request_handler parses and renders.
StatsReturned(s, text) ==
    /\ pc[s] = "stats"
    /\ stats' = [stats EXCEPT ![s] = StrV(text)]
    /\ LET x == QueryExit(rcon[s], client[s], "return", "")
       IN  /\ client' = [client EXCEPT ![s] = x.client]
           /\ log' = [log EXCEPT ![s] = @ \o x.log]
    /\ response' = [response EXCEPT ![s] =
                       HandleQueryResult(target[s], status[s].s, text)]
    /\ pc' = [pc EXCEPT ![s] = "done"]
    /\ UNCHANGED <<config, request, target, rcon, status>>
    /\ UNCHANGED <<parse, exec>>

\* rcon("stats") times out or fails, had _rcon_query kept its session in an
\* attribute of the exporter which every handler shares: the finally clause
\* closes whatever sessions are open.
StatsFailedSharedSession(s, e) ==
    /\ pc[s] = "stats"
    /\ LET x == QueryExit(rcon[s], client[s], "raise", e)
       IN  /\ client' = [t \in DOMAIN client |->
                            IF t = s THEN x.client
                            ELSE IF client[t].open = 1 THEN ClientClose(client[t])
                            ELSE client[t]]
           /\ log' = [log EXCEPT ![s] =
                         @ \o (IF e = "TimeoutError" THEN <<Ev("timeout")>> ELSE <<>>)
                           \o x.log]
           /\ response' = [response EXCEPT ![s] = HandleQueryException(e)]
           /\ pc' = [pc EXCEPT ![s] = "done"]
    /\ UNCHANGED <<config, request, target, rcon, status, stats>>
    /\ UNCHANGED <<parse, exec>>

\* rcon("stats") times out or fails.
StatsFailed(s, e) ==
    /\ pc[s] = "stats"
    /\ Raise(s, client[s], e, IF e = "TimeoutError" THEN <<Ev("timeout")>> ELSE <<>>)
    /\ UNCHANGED <<config, request, target, rcon, status, stats>>
    /\ UNCHANGED <<parse, exec>>

Next ==
    \E s \in Scrapes :
        \/ \E req \in Requests : Receive(s, req)
        \/ ConnectEstablished(s)
        \/ \E e \in {"ConnectionRefusedError", "ConnectionError", "TimeoutError"} :
              AttemptFailed(s, e)
        \/ AuthRejected(s)
        \/ CreateTimeout(s)
        \/ AuthSucceeded(s)
        \/ \E text \in StatusTexts : StatusReturned(s, text)
        \/ \E e \in CommandFailures : StatusFailed(s, e)
        \/ \E text \in StatsTexts : StatsReturned(s, text)
        \/ \E e \in CommandFailures : StatsFailed(s, e)

Spec == Init /\ [][Next]_vars

(* ------------------------- reading the log ----------------------------- *)

\* The positions of event e in a log.
Positions(lg, e) == {i \in 1..Len(lg) : lg[i] = e}

Count(lg, e) == Cardinality(Positions(lg, e))

\* The positions at which a command was sent.
ExecPositions(lg) == {i \in 1..Len(lg) : lg[i].ev = "exec"}

\* The query operation of scrape s has ended by raising.
QueryRaised(s) == pc[s] = "done" /\ log[s] # <<>> /\ log[s][Len(log[s])].ev = "raise"

\* The exception the query operation of scrape s raised.
RaisedException(s) == log[s][Len(log[s])].arg

\* The query operation of scrape s has ended by returning.
QueryReturned(s) == pc[s] = "done" /\ log[s] # <<>> /\ log[s][Len(log[s])].ev = "return"

\* The down observable: the up gauge at 0 and nothing else.
DownObservable == <<<<K_srcds_up, IntV(0)>>>>

\* A port the data model allows: the decimal digits of an integer 1..65535.
ValidPort(v) ==
    /\ v # <<>>
    /\ \A i \in 1..Len(v) : v[i] \in Digits
    /\ DigitsToNat(v) \in 1..65535

\* A query whose target or password parameter is missing or malformed.
BadTargetSpec(q) ==
    \/ ~HasKey(q, K_target)
    \/ ~HasKey(q, K_password)
    \/ LET parts == split_sep(DictGet(q, K_target), ":")
       IN  Len(parts) # 2 \/ parts[1] = <<>> \/ ~ValidPort(parts[2])

(* ------------------------------- claims -------------------------------- *)

\* C1: once the query operation of a scrape whose RCON.create returned a
\* session has ended (returned or raised), close() was called exactly once,
\* before the return or raise, and the session holds no open connection.
C1_SessionClosedOnEveryExit ==
    \A s \in Scrapes :
        (pc[s] = "done" /\ rcon[s] = "session") =>
            /\ Count(log[s], Ev("close")) = 1
            /\ Len(log[s]) >= 2
            /\ log[s][Len(log[s]) - 1] = Ev("close")
            /\ log[s][Len(log[s])].ev \in {"return", "raise"}
            /\ client[s].phase = "closed"
            /\ client[s].closes = 1
            /\ client[s].open = 0

\* C1 witness: a scrape whose stats command timed out after status returned
\* has ended with its session closed.
C1_Witness ==
    \E s \in Scrapes :
        /\ QueryRaised(s)
        /\ RaisedException(s) = "TimeoutError"
        /\ rcon[s] = "session"
        /\ status[s] # NoneV
        /\ client[s].phase = "closed"

\* C2: a scrape that ended in a timeout or an authentication failure holds
\* no open connection.
C2_NoDanglingConnection ==
    \A s \in Scrapes :
        (QueryRaised(s) /\ RaisedException(s) \in {"TimeoutError", "AuthenticationFailed"})
            => client[s].open = 0

\* C3: a response that carries a metric other than the down observable comes
\* from a scrape whose status and stats commands both returned; a scrape
\* whose query raised exposes no metric but the up gauge.
C3_MetricsOnlyFromCompletePair ==
    \A s \in Scrapes :
        /\ (\E i \in 1..Len(response[s].metrics) :
                response[s].metrics[i][1] # K_srcds_up)
            => /\ status[s].t = "str"
               /\ stats[s].t = "str"
               /\ QueryReturned(s)
               /\ Count(log[s], Exec("status")) = 1
               /\ Count(log[s], Exec("stats")) = 1
        /\ (status[s].t = "str" /\ stats[s].t # "str")
            => DictKeys(response[s].metrics) \subseteq {K_srcds_up}

\* C3 witness: a scrape answered with a rendered mapping.
C3_Witness ==
    \E s \in Scrapes :
        /\ response[s].kind = "metrics"
        /\ HasKey(response[s].metrics, K_hostname)

\* C4: a stats output that does not parse ends the scrape in one of the
\* classified outcomes.
C4_ParseFailureClassified ==
    \A s \in Scrapes :
        (/\ pc[s] = "done"
         /\ stats[s].t = "str"
         /\ _parse_stats(stats[s].s, <<>>).exc # "none")
            => response[s].kind \in {"down", "refused", "target_invalid"}

\* C5: a query operation that raised is answered by exactly one outcome:
\* ConnectionRefusedError by the refused outcome (503, no metrics), any
\* other exception by the down observable (200, the up gauge at 0 alone).
C5_FailureOutcomes ==
    \A s \in Scrapes :
        QueryRaised(s) =>
            IF RaisedException(s) = "ConnectionRefusedError"
            THEN /\ response[s].kind = "refused"
                 /\ response[s].status = 503
                 /\ response[s].metrics = <<>>
            ELSE /\ response[s].kind = "down"
                 /\ response[s].status = 200
                 /\ response[s].metrics = DownObservable

\* C5 witness: a refused connection surfaced and was answered.
C5_Witness ==
    \E s \in Scrapes :
        /\ QueryRaised(s)
        /\ RaisedException(s) = "ConnectionRefusedError"
        /\ response[s].kind = "refused"

\* C6: a scrape begins a connection only after _get_target returned its
\* triple, and a scrape whose target specification was rejected never
\* connects, authenticates or sends a command.
C6_ResolveBeforeNetwork ==
    \A s \in Scrapes :
        /\ (client[s] # ClientIdle \/ Count(log[s], Ev("connect")) > 0)
            => /\ target[s] # NoTarget
               /\ Len(log[s]) >= 2
               /\ log[s][1] = Ev("resolved")
               /\ log[s][2] = Ev("connect")
        /\ (Count(log[s], Ev("reject")) > 0 \/ response[s].kind = "target_invalid")
            => /\ client[s] = ClientIdle
               /\ pc[s] = "done"
               /\ \A i \in 1..Len(log[s]) :
                      log[s][i].ev \notin {"connect", "auth", "session", "exec"}

\* C6 witness: a request was rejected for its target specification.
C6_Witness ==
    \E s \in Scrapes :
        /\ response[s].kind = "target_invalid"
        /\ log[s] = <<Ev("reject")>>

\* C7: in multi-target mode a /metrics request with a missing or malformed
\* target or password is answered by the target-specification-invalid
\* outcome.
C7_BadSpecRejected ==
    \A s \in Scrapes :
        (/\ ~config.single_server
         /\ pc[s] # "idle"
         /\ request[s].path = "/metrics"
         /\ BadTargetSpec(request[s].query))
            => response[s].kind = "target_invalid"

\* C8: in single server mode a /metrics request with a target or a password
\* parameter is rejected, a request with neither is resolved to the
\* configured triple, and the configuration stays the one set at startup.
C8_SingleServerTarget ==
    /\ config.single_server => config = SingleServerConfig
    /\ \A s \in Scrapes :
        (/\ config.single_server
         /\ pc[s] # "idle"
         /\ request[s].path = "/metrics")
            => IF \/ HasKey(request[s].query, K_target)
                  \/ HasKey(request[s].query, K_password)
               THEN /\ response[s].kind = "target_invalid"
                    /\ target[s] = NoTarget
               ELSE /\ target[s] = <<SingleServerConfig.ip, SingleServerConfig.port,
                                     SingleServerConfig.password>>
                    /\ response[s].kind # "target_invalid"

\* C8 witness: in single server mode a request with a password parameter
\* alone was rejected.
C8_Witness ==
    \E s \in Scrapes :
        /\ config.single_server
        /\ request[s].path = "/metrics"
        /\ ~HasKey(request[s].query, K_target)
        /\ HasKey(request[s].query, K_password)
        /\ response[s].kind = "target_invalid"

\* C9: the commands a scrape sends are "status" and then "stats", each at
\* most once: "status" right after RCON.create returned the authenticated
\* session, "stats" only once "status" returned its text, and none after
\* close().
C9_CommandOrder ==
    \A s \in Scrapes :
        /\ \A i \in ExecPositions(log[s]) : log[s][i].arg \in {"status", "stats"}
        /\ Count(log[s], Exec("status")) <= 1
        /\ Count(log[s], Exec("stats")) <= 1
        /\ \A i \in Positions(log[s], Exec("status")) :
              /\ i > 1
              /\ log[s][i - 1] = Ev("session")
              /\ \E j \in 1..(i - 1) : log[s][j] = Ev("auth")
        /\ \A i \in Positions(log[s], Exec("stats")) :
              /\ \E j \in 1..(i - 1) : log[s][j] = Exec("status")
              /\ status[s].t = "str"
        /\ \A i \in Positions(log[s], Ev("close")) :
              /\ \A j \in ExecPositions(log[s]) : j < i
              /\ \E j \in 1..(i - 1) : log[s][j] = Ev("session")
        /\ pc[s] \in {"status", "stats"} => client[s].phase = "authenticated"
        /\ QueryReturned(s) =>
              /\ Count(log[s], Exec("status")) = 1
              /\ Count(log[s], Exec("stats")) = 1
              /\ Count(log[s], Ev("close")) = 1

\* C9 witness: a scrape sent both commands, closed and returned.
C9_Witness ==
    \E s \in Scrapes :
        /\ QueryReturned(s)
        /\ Count(log[s], Exec("stats")) = 1
        /\ Count(log[s], Ev("close")) = 1

TimeoutsFire ==
    \A s \in Scrapes :
        /\ WF_vars(CreateTimeout(s))
        /\ WF_vars(StatusFailed(s, "TimeoutError"))
        /\ WF_vars(StatsFailed(s, "TimeoutError"))

FairSpec == Spec /\ TimeoutsFire

\* The outcomes the handler classifies: a rejection, the refused response,
\* the down observable, the rendered mapping.
ClassifiedOutcomes == {"invalid_path", "target_invalid", "refused", "down", "metrics"}

\* C11 as one temporal formula: every scrape that was received eventually
\* terminates, and it terminates with one of the classified outcomes, also
\* when the game server never answers.
C11_TerminatesClassified ==
    \A s \in Scrapes :
        (pc[s] # "idle") ~> (pc[s] = "done" /\ response[s].kind \in ClassifiedOutcomes)

\* The termination half of C11 on its own: every received scrape ends,
\* each await being bounded by its timeout.
C11_Terminates == \A s \in Scrapes : (pc[s] # "idle") ~> (pc[s] = "done")

\* C11: a scrape that terminated did so with exactly one outcome, and the
\* outcome is a rejection, the refused response, the down observable or the
\* full mapping.
C11_OneClassifiedOutcome ==
    \A s \in Scrapes : pc[s] = "done" => response[s].kind \in ClassifiedOutcomes

(* ------------------------- concurrent scrapes -------------------------- *)

\* The number of scrapes in flight at once.
NumConcurrent == 2

Concurrent == 1..NumConcurrent

\* Two requests of a multi-target exporter, for two game servers.
RequestFirst ==
    [path |-> "/metrics",
     query |-> <<<<K_target, <<"h", ":", "1">>>>, <<K_password, <<"p">>>>>>]

RequestSecond ==
    [path |-> "/metrics",
     query |-> <<<<K_target, <<"h", ":", "2">>>>, <<K_password, <<"p">>>>>>]

ConcurrentRequests == {RequestFirst, RequestSecond}

TargetFirst == _get_target(MultiTargetConfig, RequestFirst.query).target

TargetSecond == _get_target(MultiTargetConfig, RequestSecond.query).target

\* A second, shorter stats text.
StatsShort == <<"C", "P", "U", "\n", "7", ".", "0", "\n">>

\* What each game server answers to the commands: every server has its own
\* state, so the two answer differently.
GameServerStatus(tgt) == IF tgt = TargetFirst THEN StatusFull ELSE StatusShort

GameServerStats(tgt) == IF tgt = TargetFirst THEN StatsFull ELSE StatsShort

\* start_webserver serving NumConcurrent requests at once.
ConcurrentInit ==
    /\ config = MultiTargetConfig
    /\ pc = [s \in Concurrent |-> "idle"]
    /\ request = [s \in Concurrent |-> NoRequest]
    /\ target = [s \in Concurrent |-> NoTarget]
    /\ rcon = [s \in Concurrent |-> "None"]
    /\ status = [s \in Concurrent |-> NoneV]
    /\ stats = [s \in Concurrent |-> NoneV]
    /\ client = [s \in Concurrent |-> ClientIdle]
    /\ response = [s \in Concurrent |-> NoResponse]
    /\ log = [s \in Concurrent |-> <<>>]
    /\ parse = NoParse
    /\ exec = NoExec

\* The event loop runs one handler up to its next await, then any other.
\* Each server's answers are narrowed to one text per command, the client's
\* failed attempts to refused connections and a command's failure to its
\* timeout.
ConcurrentNext ==
    \E s \in Concurrent :
        \/ \E req \in ConcurrentRequests : Receive(s, req)
        \/ ConnectEstablished(s)
        \/ AttemptFailed(s, "ConnectionRefusedError")
        \/ AuthRejected(s)
        \/ CreateTimeout(s)
        \/ AuthSucceeded(s)
        \/ StatusReturned(s, GameServerStatus(target[s]))
        \/ StatusFailed(s, "TimeoutError")
        \/ StatsReturned(s, GameServerStats(target[s]))
        \/ StatsFailed(s, "TimeoutError")

ConcurrentSpec == ConcurrentInit /\ [][ConcurrentNext]_vars

\* Everything a scrape holds: request_handler's and _rcon_query's locals, its
\* client and its answer.
Local(s) ==
    <<pc[s], request[s], target[s], rcon[s], status[s], stats[s], client[s],
      response[s], log[s]>>

\* The mapping a scrape of each game server answers when both commands
\* returned.
MappingFirst ==
    _parse_query(GameServerStats(TargetFirst), GameServerStatus(TargetFirst),
                 InitialServerDict(TargetFirst)).dict

MappingSecond ==
    _parse_query(GameServerStats(TargetSecond), GameServerStatus(TargetSecond),
                 InitialServerDict(TargetSecond)).dict

\* What scrape s holds is its own: its target is the one its request names,
\* its session is opened and closed by its own connects and close, the texts
\* it holds are its game server's, and the mapping it answers is the one of
\* its game server, labelled with its target.
OwnSessionOwnValues(s) ==
    LET first == request[s] = RequestFirst
    IN  /\ pc[s] # "idle" => target[s] = IF first THEN TargetFirst ELSE TargetSecond
        /\ client[s].attempts = Count(log[s], Ev("connect"))
        /\ client[s].closes = Count(log[s], Ev("close"))
        /\ client[s].closes <= 1
        /\ pc[s] \in {"status", "stats"} => client[s].open = 1
        /\ status[s] \in {NoneV, StrV(GameServerStatus(target[s]))}
        /\ stats[s] \in {NoneV, StrV(GameServerStats(target[s]))}
        /\ response[s].kind = "metrics" =>
              /\ response[s].metrics = IF first THEN MappingFirst ELSE MappingSecond
              /\ DictGet(response[s].metrics, K_ip) = target[s][1]
              /\ DictGet(response[s].metrics, K_port) = target[s][2]

\* C12: concurrent scrapes are isolated under every interleaving: each opens
\* and closes its own session, also for a target another scrape names; a
\* step of one scrape (its timeout, failure, close or answer) leaves every
\* other scrape's session, state and outcome as they were; the mapping a
\* scrape returns comes from its own session's texts and its own target.
C12_Isolation ==
    /\ [](\A s \in Concurrent : OwnSessionOwnValues(s))
    /\ [][\A s, t \in Concurrent :
             s # t => (Local(s)' = Local(s) \/ Local(t)' = Local(t))]_vars

\* C12 witness: two scrapes named the same target; one failed in its stats
\* command and closed its session while the other's session is still open.
C12_Witness ==
    \E s, t \in Concurrent :
        /\ s # t
        /\ target[s] = target[t]
        /\ pc[s] = "done" /\ QueryRaised(s) /\ client[s].closes = 1
        /\ Count(log[s], Exec("stats")) = 1
        /\ pc[t] = "stats" /\ client[t].open = 1 /\ client[t].closes = 0

(* ------------------------ _parse_stats on its own ---------------------- *)

\* The most columns a stats text of the inputs has.
MaxCols == 2

\* Column names of the inputs: three of the rename table, two of them with
\* the same entry, one the table does not hold, and one that is also a key
\* _parse_status writes.
StatNames ==
    { <<"I", "n">>, <<"I", "n", "_", "(", "K", "B", "/", "s", ")">>,
      <<"O", "u", "t">>, <<"C", "P", "U">>, K_hostname }

\* Column values of the inputs.
StatValues == { <<"1", ".", "5">>, <<"3", "0">> }

\* words joined by single spaces
RECURSIVE JoinWords(_)
JoinWords(words) ==
    IF words = <<>> THEN <<>>
    ELSE IF Len(words) = 1 THEN words[1]
    ELSE words[1] \o <<" ">> \o JoinWords(Tail(words))

\* The stats text of a names line and a values line.
StatsText(names, values) ==
    JoinWords(names) \o <<"\n">> \o JoinWords(values) \o <<"\n">>

\* The valid stats inputs: as many values as names, at most MaxCols.
StatsColumns ==
    UNION { [1..n -> StatNames] \X [1..n -> StatValues] : n \in 0..MaxCols }

\* server_dict as _parse_stats finds it: request_handler's three keys, and
\* what _parse_status added for a full status text.
StatsBefore ==
    { InitialServerDict(TargetFirst),
      _parse_status(StatusFull, InitialServerDict(TargetFirst)) }

\* A call of _parse_stats is about to be made.
StatsInit ==
    /\ config = MultiTargetConfig
    /\ pc = [s \in Scrapes |-> "idle"]
    /\ request = [s \in Scrapes |-> NoRequest]
    /\ target = [s \in Scrapes |-> NoTarget]
    /\ rcon = [s \in Scrapes |-> "None"]
    /\ status = [s \in Scrapes |-> NoneV]
    /\ stats = [s \in Scrapes |-> NoneV]
    /\ client = [s \in Scrapes |-> ClientIdle]
    /\ response = [s \in Scrapes |-> NoResponse]
    /\ log = [s \in Scrapes |-> <<>>]
    /\ exec = NoExec
    /\ \E c \in StatsColumns, d \in StatsBefore :
          parse = [pc |-> "parse_stats", parts |-> c, text |-> StatsText(c[1], c[2]),
                   before |-> d, after |-> d, exc |-> "none"]

\* _parse_stats(stats, server_dict)
ParseStats ==
    /\ parse.pc = "parse_stats"
    /\ LET r == _parse_stats(parse.text, parse.before)
       IN  parse' = [parse EXCEPT !.pc = "stats_parsed", !.after = r.dict,
                                  !.exc = r.exc]
    /\ UNCHANGED <<config, pc, request, target, rcon, status, stats, client,
                   response, log, exec>>

StatsSpec == StatsInit /\ [][ParseStats]_vars

\* The key the rename table gives a column name.
Renamed(name) ==
    IF HasKey(STATS_MAPPING, name) THEN DictGet(STATS_MAPPING, name) ELSE name

\* The number a column value of the inputs denotes.
StatNumber(v) == IF v = <<"1", ".", "5">> THEN FloatV(15, 1) ELSE FloatV(30, 0)

\* The keys the columns of a names line are stored under.
RenamedKeys(names) == {Renamed(names[i]) : i \in 1..Len(names)}

\* The last column stored under the key of column i.
LastColumn(names, i) ==
    CHOOSE j \in i..Len(names) :
        /\ Renamed(names[j]) = Renamed(names[i])
        /\ \A k \in (j + 1)..Len(names) : Renamed(names[k]) # Renamed(names[i])

\* C13 as stated: for every valid stats input the parse returns, every
\* column is stored under its table entry (or its own name when the table
\* does not hold it) and never under a replaced name, with the value at the
\* same position, and the parse adds as many metrics as there are columns.
C13_RenamedPairedCounted ==
    parse.pc = "stats_parsed" =>
        LET names == parse.parts[1]
            values == parse.parts[2]
        IN  /\ parse.exc = "none"
            /\ \A i \in 1..Len(names) :
                  /\ HasKey(parse.after, Renamed(names[i]))
                  /\ DictGet(parse.after, Renamed(names[i])) = StatNumber(values[i])
                  /\ HasKey(STATS_MAPPING, names[i]) => ~HasKey(parse.after, names[i])
            /\ Len(parse.after) - Len(parse.before) = Len(names)

\* C13 amended: every column is stored under its table entry (or its own
\* name) and never under a replaced name; a key holds the value of the last
\* column stored under it, which is the value at the same position when no
\* two columns share a key; the parse adds one metric per distinct key that
\* the mapping did not hold, and leaves every other key as it was.
C13_RenamedLastWins ==
    parse.pc = "stats_parsed" =>
        LET names == parse.parts[1]
            values == parse.parts[2]
        IN  /\ parse.exc = "none"
            /\ \A i \in 1..Len(names) :
                  /\ HasKey(parse.after, Renamed(names[i]))
                  /\ DictGet(parse.after, Renamed(names[i]))
                        = StatNumber(values[LastColumn(names, i)])
                  /\ HasKey(STATS_MAPPING, names[i]) => ~HasKey(parse.after, names[i])
            /\ DictKeys(parse.after) = DictKeys(parse.before) \cup RenamedKeys(names)
            /\ Len(parse.after) - Len(parse.before)
                  = Cardinality(RenamedKeys(names) \ DictKeys(parse.before))
            /\ \A k \in DictKeys(parse.before) \ RenamedKeys(names) :
                  DictGet(parse.after, k) = DictGet(parse.before, k)

\* C13 witness: the columns In and In_(KB/s) were parsed; NetIn holds the
\* second value and is the one metric added.
C13_Witness ==
    /\ parse.pc = "stats_parsed"
    /\ parse.parts = << << <<"I", "n">>, <<"I", "n", "_", "(", "K", "B", "/", "s", ")">> >>,
                        << <<"1", ".", "5">>, <<"3", "0">> >> >>
    /\ DictGet(parse.after, <<"N", "e", "t", "I", "n">>) = FloatV(30, 0)
    /\ Len(parse.after) = Len(parse.before) + 1

\* The keys written before _parse_stats runs: the target metadata and the
\* keys _parse_status derives.
EarlierKeys == {K_ip, K_port, K_target, K_hostname, K_players, K_bots, K_max_players}

\* C19: after _parse_status and then _parse_stats, for every stats input,
\* the values under ip, port, target, hostname, players, bots and
\* max_players are the ones written before _parse_stats ran.
C19_EarlierKeysKept ==
    parse.pc = "stats_parsed" =>
        \A k \in EarlierKeys \cap DictKeys(parse.before) :
            /\ HasKey(parse.after, k)
            /\ DictGet(parse.after, k) = DictGet(parse.before, k)

(* ----------------------- _parse_status on its own ---------------------- *)

\* The most lines a status text of the inputs has.
MaxLines == 3

\* Lines of the inputs: a hostname header, the players header in the three
\* layouts with the same numbers, a players header with other numbers, a
\* players header matching no layout, a blank line, a line with no colon, a
\* header the parser does not use.
LineHostname ==
    <<"h", "o", "s", "t", "n", "a", "m", "e", ":", " ", "A">>
LinePlayersFull ==
    <<"p", "l", "a", "y", "e", "r", "s", ":", " ", "1", "2", " ", "h", "u",
      "m", "a", "n", "s", ",", " ", "0", " ", "b", "o", "t", "s", " ", "(",
      "1", "6", " ", "m", "a", "x", ")">>
LinePlayersGmod ==
    <<"p", "l", "a", "y", "e", "r", "s", ":", " ", "1", "2", " ", "(", "1",
      "6", " ", "m", "a", "x", ")">>
LinePlayersCsgo ==
    <<"p", "l", "a", "y", "e", "r", "s", ":", " ", "1", "2", " ", "h", "u",
      "m", "a", "n", "s", ",", " ", "0", " ", "b", "o", "t", "s", " ", "(",
      "1", "6", "/", "0", " ", "m", "a", "x", ")", " ", "(", "h", "i", "b",
      "e", "r", "n", "a", "t", "i", "n", "g", ")">>
LinePlayersOther ==
    <<"p", "l", "a", "y", "e", "r", "s", ":", " ", "5", " ", "h", "u", "m",
      "a", "n", "s", ",", " ", "2", " ", "b", "o", "t", "s", " ", "(", "1",
      "0", " ", "m", "a", "x", ")">>
LinePlayersBad ==
    <<"p", "l", "a", "y", "e", "r", "s", ":", " ", "m", "a", "n", "y">>
LineBlank ==
    <<>>
LineNoColon ==
    <<"#", " ", "u", "s", "e", "r", "i", "d">>
LineMap ==
    <<"m", "a", "p", ":", " ", "d", "e">>

StatusLines ==
    { LineHostname, LinePlayersFull, LinePlayersGmod, LinePlayersCsgo,
      LinePlayersOther, LinePlayersBad, LineBlank, LineNoColon, LineMap }

\* The status text of these lines.
RECURSIVE StatusText(_)
StatusText(lines) ==
    IF lines = <<>> THEN <<>>
    ELSE lines[1] \o <<"\n">> \o StatusText(Tail(lines))

\* The status inputs: at most MaxLines lines.
StatusInputs == UNION { [1..n -> StatusLines] : n \in 0..MaxLines }

\* A call of _parse_status is about to be made.
StatusInit ==
    /\ config = MultiTargetConfig
    /\ pc = [s \in Scrapes |-> "idle"]
    /\ request = [s \in Scrapes |-> NoRequest]
    /\ target = [s \in Scrapes |-> NoTarget]
    /\ rcon = [s \in Scrapes |-> "None"]
    /\ status = [s \in Scrapes |-> NoneV]
    /\ stats = [s \in Scrapes |-> NoneV]
    /\ client = [s \in Scrapes |-> ClientIdle]
    /\ response = [s \in Scrapes |-> NoResponse]
    /\ log = [s \in Scrapes |-> <<>>]
    /\ exec = NoExec
    /\ \E ls \in StatusInputs :
          parse = [pc |-> "parse_status", parts |-> ls, text |-> StatusText(ls),
                   before |-> InitialServerDict(TargetFirst),
                   after |-> InitialServerDict(TargetFirst), exc |-> "none"]

\* _parse_status(status, server_dict)
ParseStatus ==
    /\ parse.pc = "parse_status"
    /\ parse' = [parse EXCEPT !.pc = "status_parsed",
                              !.after = _parse_status(parse.text, parse.before)]
    /\ UNCHANGED <<config, pc, request, target, rcon, status, stats, client,
                   response, log, exec>>

StatusSpec == StatusInit /\ [][ParseStatus]_vars

\* The index of the line at which the header ends: the first line that is
\* blank or holds no colon, one past the last line when there is none.
CutOff(lines) ==
    LET cuts == {i \in 1..Len(lines) : lines[i] \in {LineBlank, LineNoColon}}
    IN  IF cuts = {} THEN Len(lines) + 1
        ELSE CHOOSE i \in cuts : \A j \in cuts : i <= j

\* The header lines: the lines before the cut-off.
Header(lines) == SubSeq(lines, 1, CutOff(lines) - 1)

\* The players headers that match a layout.
MatchingPlayers == {LinePlayersFull, LinePlayersGmod, LinePlayersCsgo, LinePlayersOther}

\* The index of the last line of lines that is in set, 0 when there is none.
LastIn(lines, set) ==
    LET at == {i \in 1..Len(lines) : lines[i] \in set}
    IN  IF at = {} THEN 0 ELSE CHOOSE i \in at : \A j \in at : j <= i

\* lines without its line i
Without(lines, i) == SubSeq(lines, 1, i - 1) \o SubSeq(lines, i + 1, Len(lines))

\* C14: _parse_status returns without raising; the lines at and after the
\* first blank line, or the first line with no colon when no blank line
\* precedes it, change nothing in the mapping; every hostname and players
\* header before that line is applied, in order.
C14_StopsAtCutOff ==
    parse.pc = "status_parsed" =>
        LET head == Header(parse.parts)
            h == LastIn(head, {LineHostname})
            p == LastIn(head, MatchingPlayers)
        IN  /\ parse.exc = "none"
            /\ parse.after = _parse_status(StatusText(head), parse.before)
            /\ HasKey(parse.after, K_hostname) <=> h > 0
            /\ h > 0 => DictGet(parse.after, K_hostname) = StrV(<<"A">>)
            /\ HasKey(parse.after, K_players) <=> p > 0
            /\ (h > 0 /\ p > 0) =>
                  (KeyIndex(parse.after, K_hostname, 1) < KeyIndex(parse.after, K_players, 1)
                     <=> \E i \in 1..Len(head) :
                            /\ head[i] = LineHostname
                            /\ \A j \in 1..(i - 1) : head[j] \notin MatchingPlayers)

\* C14 witness: a hostname header, then a line with no colon and no blank
\* line before it, then a players header: the hostname is stored, no
\* players key is.
C14_Witness ==
    /\ parse.pc = "status_parsed"
    /\ parse.parts = <<LineHostname, LineNoColon, LinePlayersFull>>
    /\ HasKey(parse.after, K_hostname)
    /\ ~HasKey(parse.after, K_players)

\* The three layouts of the players header, each with 12 players of 16.
Layouts == {LinePlayersFull, LinePlayersGmod, LinePlayersCsgo}

C18_UnmatchedSkipped ==
    parse.pc = "status_parsed" =>
        /\ parse.exc = "none"
        /\ \A i \in 1..Len(Header(parse.parts)) :
              parse.parts[i] = LinePlayersBad =>
                  parse.after
                    = _parse_status(StatusText(Without(parse.parts, i)), parse.before)

\* C18 witness: a matching players header, then one matching no layout,
\* then a hostname header: the players keys are those of the first line and
\* the hostname is stored.
C18_Witness ==
    /\ parse.pc = "status_parsed"
    /\ parse.parts = <<LinePlayersOther, LinePlayersBad, LineHostname>>
    /\ DictGet(parse.after, K_players) = StrV(<<"5">>)
    /\ DictGet(parse.after, K_bots) = StrV(<<"2">>)
    /\ DictGet(parse.after, K_max_players) = StrV(<<"1", "0">>)
    /\ DictGet(parse.after, K_hostname) = StrV(<<"A">>)

\* What a matching players header holds: players, bots (None when the
\* layout has no bots segment) and max_players.
HeaderValues(line) ==
    IF line = LinePlayersOther
    THEN [players |-> StrV(<<"5">>), bots |-> StrV(<<"2">>),
          max_players |-> StrV(<<"1", "0">>)]
    ELSE [players |-> StrV(<<"1", "2">>),
          bots |-> IF line = LinePlayersGmod THEN NoneV ELSE StrV(<<"0">>),
          max_players |-> StrV(<<"1", "6">>)]

\* C20: a matching players header writes all three keys players, bots and
\* max_players, over whatever an earlier header wrote; for the layout with
\* no bots segment bots is written with None, neither left absent nor left
\* with its earlier value.
C20_MatchWritesAllThree ==
    parse.pc = "status_parsed" =>
        LET head == Header(parse.parts)
            p == LastIn(head, MatchingPlayers)
        IN  p > 0 =>
                /\ {K_players, K_bots, K_max_players} \subseteq DictKeys(parse.after)
                /\ DictGet(parse.after, K_players) = HeaderValues(head[p]).players
                /\ DictGet(parse.after, K_bots) = HeaderValues(head[p]).bots
                /\ DictGet(parse.after, K_max_players) = HeaderValues(head[p]).max_players

\* C20 witness: a header with 2 bots, then the layout with no bots segment:
\* bots is None and the other two keys are the second header's.
C20_Witness ==
    /\ parse.pc = "status_parsed"
    /\ parse.parts = <<LinePlayersOther, LinePlayersGmod>>
    /\ DictGet(parse.after, K_bots) = NoneV
    /\ DictGet(parse.after, K_players) = StrV(<<"1", "2">>)
    /\ DictGet(parse.after, K_max_players) = StrV(<<"1", "6">>)

(* --------------------------- the full mapping -------------------------- *)

\* The items of a mapping, whatever their order.
DictItems(d) == {d[i] : i \in 1..Len(d)}

\* The target label: the address and the port, each in braces, with a colon
\* between them.
TargetLabel(tgt) ==
    IF tgt[2] = IntV(27015)
    THEN StrV(<<"{", "g", "}", ":", "{", "2", "7", "0", "1", "5", "}">>)
    ELSE IF tgt[2] = StrV(<<"1">>)
    THEN StrV(<<"{", "h", "}", ":", "{", "1", "}">>)
    ELSE StrV(<<"{", "h", "}", ":", "{", "x", "}">>)

\* The mapping of the documented example for a target, the three player
\* counts given as p, b and m.
ExampleMapping(tgt, p, b, m) ==
    { <<K_ip, tgt[1]>>, <<K_port, tgt[2]>>, <<K_target, TargetLabel(tgt)>>,
      <<K_hostname, StrV(<<"M", "y", " ", "S", "e", "r", "v", "e", "r">>)>>,
      <<K_players, p>>, <<K_bots, b>>, <<K_max_players, m>>,
      <<<<"N", "e", "t", "I", "n">>, FloatV(15, 1)>>,
      <<<<"N", "e", "t", "O", "u", "t">>, FloatV(25, 1)>>,
      <<<<"v", "a", "r", "m", "s">>, FloatV(30, 0)>> }

\* The scrape's query returned the status and stats texts of the example.
ExampleReturned(s) ==
    /\ QueryReturned(s)
    /\ status[s] = StrV(StatusFull)
    /\ stats[s] = StrV(StatsFull)

MaxFragments == 3

\* Response bodies of the inputs: status or stats texts cut short.
Bodies == { <<>>, <<"C", "P">>, <<"C", "P", "U", "\n">> }

\* What the server puts in the body of its answer to the sentinel.
SentinelAnswers == { <<>>, <<"!">> }

\* body cut after each position of cuts, in order.
RECURSIVE CutAt(_, _, _)
CutAt(body, cuts, from) ==
    IF cuts = {}
    THEN <<SubSeq(body, from, Len(body))>>
    ELSE LET c == CHOOSE x \in cuts : \A y \in cuts : x <= y
         IN  <<SubSeq(body, from, c)>> \o CutAt(body, cuts \ {c}, c + 1)

\* The ways the server may split a body into at most MaxFragments packets,
\* none empty unless the body is.
Fragmentations(body) ==
    { CutAt(body, cuts, 1) :
        cuts \in {c \in SUBSET (1..(Len(body) - 1)) : Cardinality(c) < MaxFragments} }

Packet(id, type, body) == [id |-> id, type |-> type, body |-> body]

\* The bodies of packets, concatenated in order.
RECURSIVE Concat(_)
Concat(seqs) == IF seqs = <<>> THEN <<>> ELSE seqs[1] \o Concat(Tail(seqs))

\* execute reading packet p, had it taken every RESPONSE_VALUE body it read,
\* the one of the sentinel's answer included.
ExecuteTakeAppendingAll(x, p) ==
    IF p.id = x.sent[2].id
    THEN [x EXCEPT !.pc = "returned", !.inbox = Tail(@),
                   !.result = StrV(x.acc \o p.body)]
    ELSE [x EXCEPT !.inbox = Tail(@), !.acc = @ \o p.body]

\* execute reading packet p: the answer to the sentinel ends the response,
\* any other RESPONSE_VALUE body is appended to what was read so far.
ExecuteTake(x, p) ==
    IF p.id = x.sent[2].id
    THEN [x EXCEPT !.pc = "returned", !.inbox = Tail(@), !.result = StrV(x.acc)]
    ELSE [x EXCEPT !.inbox = Tail(@),
                   !.acc = IF p.type = "RESPONSE_VALUE" THEN @ \o p.body ELSE @]

\* rcon(command) is about to be called on an authenticated session; the
\* server will answer the command with the fragments frags.
ExecInit ==
    /\ config = MultiTargetConfig
    /\ pc = [s \in Scrapes |-> "idle"]
    /\ request = [s \in Scrapes |-> NoRequest]
    /\ target = [s \in Scrapes |-> NoTarget]
    /\ rcon = [s \in Scrapes |-> "None"]
    /\ status = [s \in Scrapes |-> NoneV]
    /\ stats = [s \in Scrapes |-> NoneV]
    /\ client = [s \in Scrapes |-> ClientIdle]
    /\ response = [s \in Scrapes |-> NoResponse]
    /\ log = [s \in Scrapes |-> <<>>]
    /\ parse = NoParse
    /\ \E b \in Bodies : \E fr \in Fragmentations(b), a \in SentinelAnswers :
          exec = [NoExec EXCEPT !.pc = "send", !.frags = fr, !.answer = a]

\* execute sends the command, then the empty command that is the sentinel.
ExecuteSend ==
    /\ exec.pc = "send"
    /\ exec' = [exec EXCEPT
                   !.pc = "read",
                   !.sent = << Packet(1, "EXEC_COMMAND", <<"s", "t", "a", "t", "s">>),
                               Packet(2, "EXEC_COMMAND", <<>>) >>,
                   !.pending =
                       [i \in 1..Len(exec.frags) |->
                           Packet(1, "RESPONSE_VALUE", exec.frags[i])]
                       \o << Packet(2, "RESPONSE_VALUE", exec.answer) >>]
    /\ UNCHANGED <<config, pc, request, target, rcon, status, stats, client,
                   response, log, parse>>

\* The server's next packet arrives.
PacketArrives ==
    /\ exec.pc = "read"
    /\ exec.pending # <<>>
    /\ exec' = [exec EXCEPT !.pending = Tail(@), !.inbox = Append(@, Head(exec.pending))]
    /\ UNCHANGED <<config, pc, request, target, rcon, status, stats, client,
                   response, log, parse>>

\* execute reads the next packet that arrived.
ExecuteRead ==
    /\ exec.pc = "read"
    /\ exec.inbox # <<>>
    /\ exec' = ExecuteTake(exec, Head(exec.inbox))
    /\ UNCHANGED <<config, pc, request, target, rcon, status, stats, client,
                   response, log, parse>>

\* No further data arrives within the timeout: execute returns what it has
\* read so far.
ExecuteTimeout ==
    /\ exec.pc = "read"
    /\ exec.inbox = <<>>
    /\ exec' = [exec EXCEPT !.pc = "timed_out", !.result = StrV(exec.acc)]
    /\ UNCHANGED <<config, pc, request, target, rcon, status, stats, client,
                   response, log, parse>>

ExecNext ==
    \/ ExecuteSend
    \/ PacketArrives
    \/ ExecuteRead
    \/ ExecuteTimeout

ExecSpec == ExecInit /\ [][ExecNext]_vars

\* C17: when the sentinel's answer was read, execute returns exactly the
\* concatenation of the RESPONSE_VALUE fragments of the command in their
\* order of arrival, which is the response body the server split: nothing
\* of the sentinel's answer is appended, no fragment is lost or reordered.
C17_RoundTrip ==
    exec.pc = "returned" =>
        /\ exec.result = StrV(Concat(exec.frags))
        /\ Concat(exec.frags) \in Bodies
        /\ exec.pending = <<>> /\ exec.inbox = <<>>

\* C17 witness: a response split into three fragments, and a sentinel
\* answer with a body of its own, was read to its end.
C17_Witness ==
    /\ exec.pc = "returned"
    /\ exec.frags = << <<"C">>, <<"P", "U">>, <<"\n">> >>
    /\ exec.answer = <<"!">>
    /\ exec.result = StrV(<<"C", "P", "U", "\n">>)

====
